---- MODULE Spec2Model ----
(***************************************************************************)
(* A model of the amd-smi-wrapper crate (src/src/lib.rs, src/src/utils.rs):*)
(* the library instance and its reference-counted ownership, the socket    *)
(* and processor enumeration, and the process-list retrieval.  The native  *)
(* library is the environment: every status, count and buffer content it   *)
(* hands back is chosen nondeterministically from small sets.              *)
(***************************************************************************)
EXTENDS Integers, Sequences, FiniteSets, TLC

\* ---------------------------------------------------------------- bounds
\* Largest count the native library reports for an enumeration probe.
MaxCount == 2
\* Largest strong count of the Arc<AmdSmi> followed: the references the
\* caller keeps alive at once (root, socket handles, processor handles).
MaxRefs == 3
\* Most native calls one device_process_list invocation is followed for.
MaxCalls == 3
\* Entries of the UUID buffer (AMDSMI_GPU_UUID_SIZE of the bindings, scaled
\* down so that every buffer content can be enumerated).
AMDSMI_GPU_UUID_SIZE == 3
\* Largest raw status the conversion is applied to on its own.
MaxRawStatus == 127

\* Token values the native library writes; 0 is also the zeroed entry.
TokenValues == {0, 1}
\* Counts the native library reports for the process list.
ProcessCounts == {0, 2, 5}

\* ------------------------------------------- native status codes (utils.rs)
CODE_SUCCESS == 0
CODE_INVAL == 1
CODE_NOT_SUPPORTED == 2
CODE_NOT_YET_IMPLEMENTED == 3
CODE_NO_PERM == 10
CODE_OUT_OF_RESSOURCE == 15
CODE_UNEXPECTED_DATA == 43
\* A code with a named variant (AmdStatus::Timeout) that the conversion
\* does not recognise.
CODE_TIMEOUT == 8
\* Another one (AmdStatus::Busy).
CODE_BUSY == 30

\* Init flag bits (InitFlags).
AMD_CPUS == 1
AMD_GPUS == 2

\* The raw statuses the native library answers with in this model.
RawStatuses == {CODE_SUCCESS, CODE_INVAL, CODE_OUT_OF_RESSOURCE, CODE_TIMEOUT}
FailStatuses == RawStatuses \ {CODE_SUCCESS}
InitFlagSets == {AMD_GPUS, AMD_CPUS + AMD_GPUS}

VARIABLES
    lib,            \* "none" | "live" | "dropped": the AmdSmi value
    strong,         \* strong count of the Arc<AmdSmi>
    roots,          \* 1 while the caller holds the Arc<AmdSmi> init returned
    sockets,        \* live AmdSocketHandle values by token, each holding one Arc
    procs,          \* live AmdProcessorHandle values by token, each holding one Arc
    shutLog,        \* every invocation of amdsmi_shut_down, in order
    last,           \* the last operation: its native calls and its result
    pc,             \* "idle" | "pl_fill" | "aborted"
    max_processes   \* device_process_list: the current buffer estimate

vars == <<lib, strong, roots, sockets, procs, shutLog, last, pc, max_processes>>

\* ------------------------------------------------------------ StatusMapper
\* Mutant: the conversion also recognises the timeout code.
AmdStatusFrom_KnowsTimeout(status) ==
    CASE status = CODE_SUCCESS -> "Success"
      [] status = CODE_INVAL -> "Inval"
      [] status = CODE_NOT_SUPPORTED -> "NotSupported"
      [] status = CODE_OUT_OF_RESSOURCE -> "OutOfResources"
      [] status = CODE_NO_PERM -> "NoPerm"
      [] status = CODE_NOT_YET_IMPLEMENTED -> "NotYetImplemented"
      [] status = CODE_UNEXPECTED_DATA -> "UnexpectedData"
      [] status = CODE_TIMEOUT -> "Timeout"
      [] OTHER -> "UnknownError"

\* impl From<amdsmi_status_t> for AmdStatus
AmdStatusFrom(status) ==
    CASE status = CODE_SUCCESS -> "Success"
      [] status = CODE_INVAL -> "Inval"
      [] status = CODE_NOT_SUPPORTED -> "NotSupported"
      [] status = CODE_OUT_OF_RESSOURCE -> "OutOfResources"
      [] status = CODE_NO_PERM -> "NoPerm"
      [] status = CODE_NOT_YET_IMPLEMENTED -> "NotYetImplemented"
      [] status = CODE_UNEXPECTED_DATA -> "UnexpectedData"
      [] OTHER -> "UnknownError"

\* enum AmdStatus, #[repr(u32)]: the numeric value of the variants the
\* conversion names.
AmdStatusValue(s) ==
    CASE s = "Success" -> CODE_SUCCESS
      [] s = "Inval" -> CODE_INVAL
      [] s = "NotSupported" -> CODE_NOT_SUPPORTED
      [] s = "NotYetImplemented" -> CODE_NOT_YET_IMPLEMENTED
      [] s = "NoPerm" -> CODE_NO_PERM
      [] s = "OutOfResources" -> CODE_OUT_OF_RESSOURCE
      [] s = "UnexpectedData" -> CODE_UNEXPECTED_DATA

\* Result values: Ok(vals) and Err(AmdError(status)).
Ok(vals) == [kind |-> "Ok", status |-> "Success", vals |-> vals]
Err(s) == [kind |-> "Err", status |-> s, vals |-> <<>>]
\* AmdInitError::Load: the loader's error, which carries no native status.
LoadError == [kind |-> "Load", status |-> "Success", vals |-> <<>>]

\* Mutant: every status passes the check.
check_status_AlwaysOk(status) == Ok(<<>>)

\* Mutant: the out-of-resources status passes the check as well.
check_status_AcceptsOutOfResources(status) ==
    IF AmdStatusFrom(status) \in {"Success", "OutOfResources"}
    THEN Ok(<<>>) ELSE Err(AmdStatusFrom(status))

\* fn check_status
check_status(status) ==
    LET s == AmdStatusFrom(status)
    IN IF s = "Success" THEN Ok(<<>>) ELSE Err(s)

\* ------------------------------------------------------------ native calls
\* One native call as the library saw it: the entry point, its scoping
\* argument (flags or token), the buffer passed ("null" or "vec" of `cap`
\* entries), the status and count it answered, and whether amdsmi_shut_down
\* had already been invoked on the instance.
Call(fn, arg, buf, cap, st, cnt, out) ==
    [fn |-> fn, arg |-> arg, buf |-> buf, cap |-> cap, st |-> st, cnt |-> cnt,
     out |-> out, down |-> Len(shutLog) > 0]

\* The record of one operation: its name, whether it loaded the shared
\* library ("ok" | "failed", "n/a" for every operation but init), the native
\* calls it issued in order, and what it returned.
\* A device query also records the token of the handle it was called on
\* and the selectors the caller passed.
OnHandle(op, self, args, calls, res) ==
    [op |-> op, load |-> "n/a", calls |-> calls, res |-> res,
     self |-> <<self>>, args |-> args]

Did(op, load, calls, res) ==
    [op |-> op, load |-> load, calls |-> calls, res |-> res,
     self |-> <<>>, args |-> <<>>]

NoOp == Did("none", "n/a", <<>>, Ok(<<>>))

\* ------------------------------------------------------- ownership (Arc)
\* Mutant: the destructor does not shut the library down.
DropAmdSmi_NoShutdown(log) == log

\* impl Drop for AmdSmi: amdsmi_shut_down, invoked with no reference left.
DropAmdSmi(log) == Append(log, [by |-> "drop", shared |-> FALSE])

\* Releasing one Arc<AmdSmi> reference whose strong count was n: the count
\* drops by one and the destructor runs when it reaches zero.
ArcRelease(n, log) ==
    IF n - 1 = 0
    THEN [strong |-> 0, log |-> DropAmdSmi(log), lib |-> "dropped"]
    ELSE [strong |-> n - 1, log |-> log, lib |-> "live"]

\* The handles the caller holds, counted by token: the order in which the
\* caller keeps them has no meaning to the library.
NoHandles == [t \in TokenValues |-> 0]
Holding(held, handles) ==
    [t \in TokenValues |->
        held[t] + Cardinality({i \in 1..Len(handles) : handles[i].inner = t})]
Released(held, t) == [held EXCEPT ![t] = held[t] - 1]

Init ==
    /\ lib = "none"
    /\ strong = 0
    /\ roots = 0
    /\ sockets = NoHandles
    /\ procs = NoHandles
    /\ shutLog = <<>>
    /\ last = NoOp
    /\ pc = "idle"
    /\ max_processes = 0

\* AmdSmi::init for one load outcome and one native init status.
init(flags, loadOk, st) ==
    IF ~loadOk
    THEN Did("init", "failed", <<>>, LoadError)
    ELSE Did("init", "ok", <<Call("amdsmi_init", flags, "null", 0, st, 0, <<>>)>>,
             check_status(st))

\* Mutant: giving up the loaded bindings shuts the library down.
DropBindings_ShutsDown(log) == Append(log, [by |-> "drop", shared |-> FALSE])

\* The local `amdsmi` going out of scope when init returns early on a
\* non-success status: the bindings are unloaded, AmdSmi was never built and
\* its destructor does not run, so no shutdown is logged.
DropBindings(log) == log

AmdSmiInit ==
    /\ pc = "idle"
    /\ lib = "none"
    /\ \E flags \in InitFlagSets, loadOk \in BOOLEAN, st \in RawStatuses :
        LET r == init(flags, loadOk, st)
        IN /\ last' = r
           /\ IF r.res.kind = "Ok"
              THEN lib' = "live" /\ strong' = 1 /\ roots' = 1
                   /\ shutLog' = shutLog
              ELSE /\ UNCHANGED <<lib, strong, roots>>
                   /\ shutLog' = IF r.load = "ok" THEN DropBindings(shutLog)
                                 ELSE shutLog
    /\ UNCHANGED <<sockets, procs, pc, max_processes>>

\* AmdInterface::stop for Arc<AmdSmi>: the explicit amdsmi_shut_down, then
\* `self` goes out of scope and its reference is released.
Stop ==
    /\ pc = "idle"
    /\ roots > 0
    /\ \E st \in RawStatuses :
        LET explicit == Append(shutLog, [by |-> "stop", shared |-> strong > 1])
            rel == ArcRelease(strong, explicit)
        IN /\ last' = Did("stop", "n/a",
                           <<Call("amdsmi_shut_down", 0, "null", 0, st, 0, <<>>)>>,
                           check_status(st))
           /\ shutLog' = rel.log
           /\ strong' = rel.strong
           /\ lib' = rel.lib
    /\ roots' = roots - 1
    /\ UNCHANGED <<sockets, procs, pc, max_processes>>

\* The caller lets go of a root reference.
DropRoot ==
    /\ pc = "idle"
    /\ roots > 0
    /\ LET rel == ArcRelease(strong, shutLog)
       IN shutLog' = rel.log /\ strong' = rel.strong /\ lib' = rel.lib
    /\ roots' = roots - 1
    /\ last' = Did("drop_root", "n/a", <<>>, Ok(<<>>))
    /\ UNCHANGED <<sockets, procs, pc, max_processes>>

\* The caller lets go of a socket handle.
DropSocket ==
    /\ pc = "idle"
    /\ \E t \in {x \in TokenValues : sockets[x] > 0} :
        /\ sockets' = Released(sockets, t)
        /\ LET rel == ArcRelease(strong, shutLog)
           IN shutLog' = rel.log /\ strong' = rel.strong /\ lib' = rel.lib
    /\ last' = Did("drop_socket", "n/a", <<>>, Ok(<<>>))
    /\ UNCHANGED <<roots, procs, pc, max_processes>>

\* The caller lets go of a processor handle.
DropProcessor ==
    /\ pc = "idle"
    /\ \E t \in {x \in TokenValues : procs[x] > 0} :
        /\ procs' = Released(procs, t)
        /\ LET rel == ArcRelease(strong, shutLog)
           IN shutLog' = rel.log /\ strong' = rel.strong /\ lib' = rel.lib
    /\ last' = Did("drop_processor", "n/a", <<>>, Ok(<<>>))
    /\ UNCHANGED <<roots, sockets, pc, max_processes>>

\* ------------------------------------------- enumeration (two-call shape)
\* What the native library answers to the two calls of one enumeration: the
\* probe's status and count (ps, A), the fill's status and count (fs, B) and
\* the buffer of A entries as the fill call left it.  The parts of a script
\* that the code never looks at are fixed to one value.
ZeroedBuf(n) == [i \in 1..n |-> 0]

TwoPhaseScripts ==
    {[ps |-> s, A |-> 0, fs |-> CODE_SUCCESS, B |-> 0, buf |-> <<>>] :
        s \in FailStatuses}
    \cup
    {[ps |-> CODE_SUCCESS, A |-> a, fs |-> s, B |-> 0, buf |-> ZeroedBuf(a)] :
        a \in 0..MaxCount, s \in FailStatuses}
    \cup
    UNION {{[ps |-> CODE_SUCCESS, A |-> a, fs |-> CODE_SUCCESS, B |-> b, buf |-> w] :
              b \in 0..(MaxCount + 1), w \in [1..a -> TokenValues]} :
           a \in 0..MaxCount}

\* Mutant: Vec::resize in place of Vec::truncate (pads with zeroed entries).
Truncate_Resize(v, n) ==
    [i \in 1..n |-> IF i <= Len(v) THEN v[i] ELSE 0]

\* Mutant: the buffer is handed out as allocated, without truncation.
Truncate_None(v, n) == v

\* Vec::truncate as used on the filled buffer.
Truncate(v, n) == IF n < Len(v) THEN SubSeq(v, 1, n) ELSE v

\* Mutant: the handles are collected in reverse order.
AmdSocketHandles_Reversed(v) ==
    [i \in 1..Len(v) |-> [inner |-> v[Len(v) + 1 - i]]]

\* The map over the truncated buffer: one AmdSocketHandle per token, each
\* with its own Arc::clone of the instance.
AmdSocketHandles(v) == [i \in 1..Len(v) |-> [inner |-> v[i]]]

\* The map over the truncated buffer: one AmdProcessorHandle per token.
AmdProcessorHandles(v) == [i \in 1..Len(v) |-> [inner |-> v[i]]]

\* AmdInterface::socket_handles for Arc<AmdSmi>
socket_handles(sc) ==
    LET probe == Call("amdsmi_get_socket_handles", 0, "null", 0, sc.ps, sc.A, <<>>)
        fill == Call("amdsmi_get_socket_handles", 0, "vec", sc.A, sc.fs, sc.B, sc.buf)
    IN IF check_status(sc.ps).kind # "Ok"
       THEN [calls |-> <<probe>>, res |-> check_status(sc.ps)]
       ELSE IF check_status(sc.fs).kind # "Ok"
       THEN [calls |-> <<probe, fill>>, res |-> check_status(sc.fs)]
       ELSE [calls |-> <<probe, fill>>,
             res |-> Ok(AmdSocketHandles(Truncate(sc.buf, sc.B)))]

\* SocketHandle::processor_handles for AmdSocketHandle, on the token `inner`
processor_handles(inner, sc) ==
    LET probe == Call("amdsmi_get_processor_handles", inner, "null", 0, sc.ps, sc.A, <<>>)
        fill == Call("amdsmi_get_processor_handles", inner, "vec", sc.A, sc.fs, sc.B, sc.buf)
    IN IF check_status(sc.ps).kind # "Ok"
       THEN [calls |-> <<probe>>, res |-> check_status(sc.ps)]
       ELSE IF check_status(sc.fs).kind # "Ok"
       THEN [calls |-> <<probe, fill>>, res |-> check_status(sc.fs)]
       ELSE [calls |-> <<probe, fill>>,
             res |-> Ok(AmdProcessorHandles(Truncate(sc.buf, sc.B)))]

\* A caller holding a root reference enumerates the sockets.
SocketHandles ==
    /\ pc = "idle"
    /\ roots > 0
    /\ \E sc \in TwoPhaseScripts :
        LET r == socket_handles(sc)
        IN /\ strong + Len(r.res.vals) <= MaxRefs
           /\ sockets' = Holding(sockets, r.res.vals)
           /\ strong' = strong + Len(r.res.vals)
           /\ last' = Did("socket_handles", "n/a", r.calls, r.res)
    /\ UNCHANGED <<lib, roots, procs, shutLog, pc, max_processes>>

\* A caller holding a socket handle enumerates its processors.
ProcessorHandles ==
    /\ pc = "idle"
    /\ \E t \in {x \in TokenValues : sockets[x] > 0}, sc \in TwoPhaseScripts :
        LET r == processor_handles(t, sc)
        IN /\ strong + Len(r.res.vals) <= MaxRefs
           /\ procs' = Holding(procs, r.res.vals)
           /\ strong' = strong + Len(r.res.vals)
           /\ last' = Did("processor_handles", "n/a", r.calls, r.res)
    /\ UNCHANGED <<lib, roots, sockets, shutLog, pc, max_processes>>

\* --------------------------------------------- process list (growing shape)
\* What the native library answers to one amdsmi_get_gpu_process_list call:
\* a status and the count it leaves behind.  The code reads the count only
\* after a success or out-of-resources status, so the other statuses come
\* with one fixed count.
ProcessListAnswers ==
    {[st |-> s, cnt |-> c] :
        s \in {CODE_SUCCESS, CODE_OUT_OF_RESSOURCE}, c \in ProcessCounts}
    \cup
    {[st |-> s, cnt |-> 0] : s \in {CODE_INVAL, CODE_TIMEOUT}}

\* Vec::set_len(count) on a buffer of capacity `cap` with count > cap is
\* undefined behaviour: a build with the standard library's precondition
\* checks aborts, a build without them exposes `count` entries, those past
\* the capacity read from outside the allocation.
SetLenOutcomes == {"abort", "exposed"}

Pending == [kind |-> "Pending", status |-> "Success", vals |-> <<>>]
Aborted == [kind |-> "Abort", status |-> "Success", vals |-> <<>>]

\* Mutant: no early return on a zero count; the loop is entered regardless.
process_list_probe_NoZeroReturn(inner, ans) ==
    LET call == Call("amdsmi_get_gpu_process_list", inner, "null", 0,
                     ans.st, ans.cnt, <<>>)
        s == AmdStatusFrom(ans.st)
    IN IF s \notin {"Success", "OutOfResources"}
       THEN [call |-> call, next |-> "idle", res |-> Err(s), max |-> 0]
       ELSE [call |-> call, next |-> "pl_fill", res |-> Pending, max |-> ans.cnt]

\* device_process_list up to the loop: the probe with a null buffer.
process_list_probe(inner, ans) ==
    LET call == Call("amdsmi_get_gpu_process_list", inner, "null", 0,
                     ans.st, ans.cnt, <<>>)
        s == AmdStatusFrom(ans.st)
    IN IF s \notin {"Success", "OutOfResources"}
       THEN [call |-> call, next |-> "idle", res |-> Err(s), max |-> 0]
       ELSE IF ans.cnt = 0
       THEN [call |-> call, next |-> "idle", res |-> Ok(<<>>), max |-> 0]
       ELSE [call |-> call, next |-> "pl_fill", res |-> Pending, max |-> ans.cnt]

\* Mutant: out-of-resources from a fill call is returned like any other
\* error instead of being retried.
process_list_fill_OorIsError(inner, cap, ans, ub) ==
    LET call == Call("amdsmi_get_gpu_process_list", inner, "vec", cap,
                     ans.st, ans.cnt, <<>>)
        s == AmdStatusFrom(ans.st)
    IN IF s = "Success"
       THEN IF ans.cnt > cap /\ ub = "abort"
            THEN [call |-> call, next |-> "aborted", res |-> Aborted, max |-> 0]
            ELSE [call |-> call, next |-> "idle", max |-> 0,
                  res |-> Ok([i \in 1..ans.cnt |->
                                 IF i <= cap THEN "proc" ELSE "oob"])]
       ELSE [call |-> call, next |-> "idle", res |-> Err(s), max |-> 0]

\* Mutant: after out-of-resources the loop keeps its estimate instead of
\* adopting the returned count.
process_list_fill_KeepsEstimate(inner, cap, ans, ub) ==
    LET call == Call("amdsmi_get_gpu_process_list", inner, "vec", cap,
                     ans.st, ans.cnt, <<>>)
        s == AmdStatusFrom(ans.st)
    IN CASE s = "Success" ->
              IF ans.cnt > cap /\ ub = "abort"
              THEN [call |-> call, next |-> "aborted", res |-> Aborted, max |-> 0]
              ELSE [call |-> call, next |-> "idle", max |-> 0,
                    res |-> Ok([i \in 1..ans.cnt |->
                                   IF i <= cap THEN "proc" ELSE "oob"])]
         [] s = "OutOfResources" ->
              [call |-> call, next |-> "pl_fill", res |-> Pending, max |-> cap]
         [] OTHER ->
              [call |-> call, next |-> "idle", res |-> Err(s), max |-> 0]

\* Mutant: the loop gives up with the error when the returned count does not
\* exceed the capacity it just tried.
process_list_fill_GivesUp(inner, cap, ans, ub) ==
    LET call == Call("amdsmi_get_gpu_process_list", inner, "vec", cap,
                     ans.st, ans.cnt, <<>>)
        s == AmdStatusFrom(ans.st)
    IN CASE s = "Success" ->
              IF ans.cnt > cap /\ ub = "abort"
              THEN [call |-> call, next |-> "aborted", res |-> Aborted, max |-> 0]
              ELSE [call |-> call, next |-> "idle", max |-> 0,
                    res |-> Ok([i \in 1..ans.cnt |->
                                   IF i <= cap THEN "proc" ELSE "oob"])]
         [] s = "OutOfResources" /\ ans.cnt > cap ->
              [call |-> call, next |-> "pl_fill", res |-> Pending, max |-> ans.cnt]
         [] OTHER ->
              [call |-> call, next |-> "idle", res |-> Err(s), max |-> 0]

\* One iteration of the loop of device_process_list, with a buffer of
\* capacity `cap` (= max_processes).
process_list_fill(inner, cap, ans, ub) ==
    LET call == Call("amdsmi_get_gpu_process_list", inner, "vec", cap,
                     ans.st, ans.cnt, <<>>)
        s == AmdStatusFrom(ans.st)
    IN CASE s = "Success" ->
              IF ans.cnt > cap /\ ub = "abort"
              THEN [call |-> call, next |-> "aborted", res |-> Aborted, max |-> 0]
              ELSE [call |-> call, next |-> "idle", max |-> 0,
                    res |-> Ok([i \in 1..ans.cnt |->
                                   IF i <= cap THEN "proc" ELSE "oob"])]
         [] s = "OutOfResources" ->
              [call |-> call, next |-> "pl_fill", res |-> Pending, max |-> ans.cnt]
         [] OTHER ->
              [call |-> call, next |-> "idle", res |-> Err(s), max |-> 0]

\* A caller holding a processor handle asks for the process list: the probe.
DeviceProcessList ==
    /\ pc = "idle"
    /\ \E t \in {x \in TokenValues : procs[x] > 0}, ans \in ProcessListAnswers :
        LET r == process_list_probe(t, ans)
        IN /\ last' = Did("device_process_list", "n/a", <<r.call>>, r.res)
           /\ pc' = r.next
           /\ max_processes' = r.max
    /\ UNCHANGED <<lib, strong, roots, sockets, procs, shutLog>>

\* The loop of device_process_list: one more call with a real buffer.
ProcessListFill ==
    /\ pc = "pl_fill"
    /\ Len(last.calls) < MaxCalls
    /\ \E ans \in ProcessListAnswers :
        \E ub \in IF ans.st = CODE_SUCCESS /\ ans.cnt > max_processes
                  THEN SetLenOutcomes ELSE {"exposed"} :
            LET r == process_list_fill(last.calls[1].arg, max_processes, ans, ub)
            IN /\ last' = Did("device_process_list", "n/a",
                               Append(last.calls, r.call), r.res)
               /\ pc' = r.next
               /\ max_processes' = r.max
    /\ UNCHANGED <<lib, strong, roots, sockets, procs, shutLog>>

\* The same loop followed without end.  The log keeps the probe and the
\* latest fill calls: when it holds MaxCalls calls it is cut back to the probe
\* before the new call is added, so an endless run stays within finitely
\* many states and every iteration changes the log.
ProcessListLoop ==
    /\ pc = "pl_fill"
    /\ \E ans \in ProcessListAnswers :
        \E ub \in IF ans.st = CODE_SUCCESS /\ ans.cnt > max_processes
                  THEN SetLenOutcomes ELSE {"exposed"} :
            LET r == process_list_fill(last.calls[1].arg, max_processes, ans, ub)
                log == IF Len(last.calls) < MaxCalls
                       THEN Append(last.calls, r.call)
                       ELSE <<last.calls[1], r.call>>
            IN /\ last' = Did("device_process_list", "n/a", log, r.res)
               /\ pc' = r.next
               /\ max_processes' = r.max
    /\ UNCHANGED <<lib, strong, roots, sockets, procs, shutLog>>

\* ------------------------------------------------------------ device_uuid
\* The bytes the native library may leave in the UUID buffer: the
\* terminator, an ASCII letter, and a byte that occurs in no valid UTF-8.
UuidBytes == {0, 97, 255}

\* What amdsmi_get_gpu_device_uuid answers: a status, the length it reports
\* and the content of the buffer.  The code reads length and buffer only
\* after a success status, so the other statuses come with one fixed answer.
UuidAnswers ==
    {[st |-> CODE_SUCCESS, len |-> l, buf |-> b] :
        l \in 0..(AMDSMI_GPU_UUID_SIZE + 1),
        b \in [1..AMDSMI_GPU_UUID_SIZE -> UuidBytes]}
    \cup
    {[st |-> s, len |-> AMDSMI_GPU_UUID_SIZE,
      buf |-> ZeroedBuf(AMDSMI_GPU_UUID_SIZE)] : s \in FailStatuses}

\* A panic of the calling thread (index out of range, arithmetic overflow).
Panicked == [kind |-> "Panic", status |-> "Success", vals |-> <<>>]

\* CStr::from_ptr: the bytes of `mem` that precede its first terminator.
\* Memory without a terminator is read past its end (shown as one more,
\* invalid, byte); device_uuid never passes such memory.
CStrFromPtr(mem) ==
    IF \E i \in 1..Len(mem) : mem[i] = 0
    THEN LET n == CHOOSE i \in 1..Len(mem) :
                      mem[i] = 0 /\ \A j \in 1..(i - 1) : mem[j] # 0
         IN SubSeq(mem, 1, n - 1)
    ELSE mem \o <<255>>

\* CStr::to_str succeeds on valid UTF-8; of the bytes of UuidBytes the ASCII
\* ones are valid and 255 never is.
Utf8Valid(bytes) == \A i \in 1..Len(bytes) : bytes[i] < 128

\* The local buffer of device_uuid: zero-filled, one entry longer than the
\* UUID buffer, holding the first uuid_length characters and a terminator
\* after them.
cstr_buffer(uuid_buffer, uuid_length) ==
    [i \in 1..(AMDSMI_GPU_UUID_SIZE + 1) |->
        IF i <= uuid_length THEN uuid_buffer[i] ELSE 0]

\* Mutant: a decoding failure is reported with a status of its own.
to_str_error_UnexpectedData(result) == Err("UnexpectedData")

\* The error built when the bytes are not valid text: the mapped status of
\* the native call.
to_str_error(result) == Err(AmdStatusFrom(result))

\* cstr_buffer is declared inside the else block, and the CStr made from
\* its address is used after the block has ended: to_str and to_owned read
\* through a dangling pointer, which is undefined behaviour.  In every build
\* the length and the validity of the text are those of the copy; the bytes
\* copied into the String are whatever the dead stack slot holds by then:
\* the copy itself (unoptimised build), zeros, bytes of addresses and
\* lengths the program spilled there, or a mix of these with parts of the
\* copy (optimised builds, differing from run to run).
\* The bytes the dead slot may hold: a zero, a byte of the copy, and a
\* foreign byte that is no valid text.
SlotBytes == {0, 97, 160}

\* What the first n bytes of the dead slot may hold when they are read.
DanglingReads(n) == [1..n -> SlotBytes]

\* What to_owned copies out of the dead slot that held `text`: as many
\* bytes as the text had, taken from the slot as it is now.
ReadDangling(text, slot) == [i \in 1..Len(text) |-> slot[i]]

\* Whether device_uuid takes the copy branch for this answer.
CopiesUuid(ans) ==
    /\ ans.st = CODE_SUCCESS
    /\ ans.len \in 1..AMDSMI_GPU_UUID_SIZE
    /\ ans.buf[ans.len] # 0

\* fn device_uuid.  uuid_buffer[(uuid_length - 1) as usize] panics when the
\* subtraction overflows or the index is outside the buffer.  `slot` is
\* the content of the dead stack slot when the text is copied out of it and
\* matters in the copy branch only.
device_uuid(inner, ans, slot) ==
    LET call == Call("amdsmi_get_gpu_device_uuid", inner, "vec",
                     AMDSMI_GPU_UUID_SIZE, ans.st, ans.len, ans.buf)
        status == check_status(ans.st)
    IN IF status.kind = "Err"
       THEN [calls |-> <<call>>, res |-> status]
       ELSE IF ans.len - 1 \notin 0..(AMDSMI_GPU_UUID_SIZE - 1)
       THEN [calls |-> <<call>>, res |-> Panicked]
       ELSE IF ans.buf[ans.len] = 0
       THEN LET c_str == CStrFromPtr(ans.buf)
            IN [calls |-> <<call>>,
                res |-> IF Utf8Valid(c_str) THEN Ok(c_str)
                        ELSE to_str_error(ans.st)]
       ELSE LET c_str == CStrFromPtr(cstr_buffer(ans.buf, ans.len))
            IN [calls |-> <<call>>,
                res |-> IF Utf8Valid(c_str) THEN Ok(ReadDangling(c_str, slot))
                        ELSE to_str_error(ans.st)]

DeviceUuid ==
    /\ pc = "idle"
    /\ \E t \in {x \in TokenValues : procs[x] > 0}, ans \in UuidAnswers :
        \E slot \in IF CopiesUuid(ans)
                    THEN DanglingReads(Len(CStrFromPtr(cstr_buffer(ans.buf, ans.len))))
                    ELSE {<<>>} :
            LET r == device_uuid(t, ans, slot)
            IN last' = OnHandle("device_uuid", t, <<>>, r.calls, r.res)
    /\ UNCHANGED <<lib, strong, roots, sockets, procs, shutLog, pc, max_processes>>

\* ------------------------------------------------- single-shot telemetry
\* The values a telemetry call may write to its output storage.
Readings == {0, 7}

\* Selectors the caller may pass.
MemoryTypes == {"AMDSMI_MEM_TYPE_VRAM", "AMDSMI_MEM_TYPE_GTT"}
SensorTypes == {"EDGE", "HOTSPOT"}
Metrics == {"CURRENT"}

\* What a telemetry entry point answers: a status and what it wrote to the
\* output storage.  On success it wrote a reading; on failure it wrote one
\* or nothing.
TelemetryAnswers ==
    {[st |-> CODE_SUCCESS, out |-> <<v>>] : v \in Readings}
    \cup
    {[st |-> s, out |-> w] :
        s \in FailStatuses, w \in {<<v>> : v \in Readings} \cup {<<>>}}

\* Mutant: the storage is returned whatever the status.
single_shot_IgnoresStatus(fn, inner, sel, ans) ==
    [calls |-> <<Call(fn, inner, "ptr", 0, ans.st, 0, <<sel, ans.out>>)>>,
     res |-> Ok(ans.out)]

\* The body the seven telemetry queries share: one native call with the
\* token, the selectors and a pointer to the output storage (logged as the
\* pair of selectors and written value), check_status with `?`, then the
\* storage as the value.
single_shot(fn, inner, sel, ans) ==
    LET call == Call(fn, inner, "ptr", 0, ans.st, 0, <<sel, ans.out>>)
        status == check_status(ans.st)
    IN [calls |-> <<call>>,
        res |-> IF status.kind = "Err" THEN status ELSE Ok(ans.out)]

device_activity(inner, ans) ==
    single_shot("amdsmi_get_gpu_activity", inner, <<>>, ans)

device_energy_consumption(inner, ans) ==
    single_shot("amdsmi_get_energy_count", inner, <<>>, ans)

\* Mutant: the byte count is converted to KiB.
device_memory_usage_Kib(inner, mem_type, ans) ==
    LET r == single_shot("amdsmi_get_gpu_memory_usage", inner, <<mem_type>>, ans)
    IN [calls |-> r.calls,
        res |-> IF r.res.kind = "Ok" THEN Ok(<<ans.out[1] \div 1024>>) ELSE r.res]

device_memory_usage(inner, mem_type, ans) ==
    single_shot("amdsmi_get_gpu_memory_usage", inner, <<mem_type>>, ans)

device_power_consumption(inner, ans) ==
    single_shot("amdsmi_get_power_info", inner, <<>>, ans)

device_power_managment(inner, ans) ==
    single_shot("amdsmi_is_gpu_power_management_enabled", inner, <<>>, ans)

device_temperature(inner, sensor_type, metric, ans) ==
    single_shot("amdsmi_get_temp_metric", inner, <<sensor_type, metric>>, ans)

device_voltage(inner, sensor_type, metric, ans) ==
    single_shot("amdsmi_get_gpu_volt_metric", inner, <<sensor_type, metric>>, ans)

DeviceActivity ==
    /\ pc = "idle"
    /\ \E t \in {x \in TokenValues : procs[x] > 0}, ans \in TelemetryAnswers :
        LET r == device_activity(t, ans)
        IN last' = OnHandle("device_activity", t, <<>>, r.calls, r.res)
    /\ UNCHANGED <<lib, strong, roots, sockets, procs, shutLog, pc, max_processes>>

DeviceEnergyConsumption ==
    /\ pc = "idle"
    /\ \E t \in {x \in TokenValues : procs[x] > 0}, ans \in TelemetryAnswers :
        LET r == device_energy_consumption(t, ans)
        IN last' = OnHandle("device_energy_consumption", t, <<>>, r.calls, r.res)
    /\ UNCHANGED <<lib, strong, roots, sockets, procs, shutLog, pc, max_processes>>

DeviceMemoryUsage ==
    /\ pc = "idle"
    /\ \E t \in {x \in TokenValues : procs[x] > 0}, m \in MemoryTypes,
          ans \in TelemetryAnswers :
        LET r == device_memory_usage(t, m, ans)
        IN last' = OnHandle("device_memory_usage", t, <<m>>, r.calls, r.res)
    /\ UNCHANGED <<lib, strong, roots, sockets, procs, shutLog, pc, max_processes>>

DevicePowerConsumption ==
    /\ pc = "idle"
    /\ \E t \in {x \in TokenValues : procs[x] > 0}, ans \in TelemetryAnswers :
        LET r == device_power_consumption(t, ans)
        IN last' = OnHandle("device_power_consumption", t, <<>>, r.calls, r.res)
    /\ UNCHANGED <<lib, strong, roots, sockets, procs, shutLog, pc, max_processes>>

DevicePowerManagment ==
    /\ pc = "idle"
    /\ \E t \in {x \in TokenValues : procs[x] > 0}, ans \in TelemetryAnswers :
        LET r == device_power_managment(t, ans)
        IN last' = OnHandle("device_power_managment", t, <<>>, r.calls, r.res)
    /\ UNCHANGED <<lib, strong, roots, sockets, procs, shutLog, pc, max_processes>>

DeviceTemperature ==
    /\ pc = "idle"
    /\ \E t \in {x \in TokenValues : procs[x] > 0}, st \in SensorTypes,
          m \in Metrics, ans \in TelemetryAnswers :
        LET r == device_temperature(t, st, m, ans)
        IN last' = OnHandle("device_temperature", t, <<st, m>>, r.calls, r.res)
    /\ UNCHANGED <<lib, strong, roots, sockets, procs, shutLog, pc, max_processes>>

DeviceVoltage ==
    /\ pc = "idle"
    /\ \E t \in {x \in TokenValues : procs[x] > 0}, st \in SensorTypes,
          m \in Metrics, ans \in TelemetryAnswers :
        LET r == device_voltage(t, st, m, ans)
        IN last' = OnHandle("device_voltage", t, <<st, m>>, r.calls, r.res)
    /\ UNCHANGED <<lib, strong, roots, sockets, procs, shutLog, pc, max_processes>>

\* ---------------------------------------------------------- specifications
Next ==
    \/ AmdSmiInit
    \/ Stop
    \/ DropRoot
    \/ DropSocket
    \/ DropProcessor
    \/ SocketHandles
    \/ ProcessorHandles
    \/ DeviceProcessList
    \/ ProcessListFill

Spec == Init /\ [][Next]_vars

\* A caller that creates the instance, enumerates sockets and processors
\* and then queries the processors for the seven telemetry values.  Handles
\* are kept; only the root may be given up.
NextDevice ==
    \/ AmdSmiInit
    \/ DropRoot
    \/ SocketHandles
    \/ ProcessorHandles
    \/ DeviceActivity
    \/ DeviceEnergyConsumption
    \/ DeviceMemoryUsage
    \/ DevicePowerConsumption
    \/ DevicePowerManagment
    \/ DeviceTemperature
    \/ DeviceVoltage

SpecDevice == Init /\ [][NextDevice]_vars

\* device_uuid on its own.  Its result depends on the handle's token and on
\* what the native call answers, so it starts where a caller has enumerated
\* one socket and one processor and kept only the processor handle, with any
\* token, and from there queries the UUID over and over.
InitUuid ==
    /\ lib = "live"
    /\ strong = 1
    /\ roots = 0
    /\ sockets = NoHandles
    /\ procs \in {Holding(NoHandles, <<[inner |-> t]>>) : t \in TokenValues}
    /\ shutLog = <<>>
    /\ last = Did("drop_root", "n/a", <<>>, Ok(<<>>))
    /\ pc = "idle"
    /\ max_processes = 0

NextUuid == DeviceUuid

SpecUuid == InitUuid /\ [][NextUuid]_vars

\* A caller that enumerates and then retrieves process lists, the loop of
\* device_process_list followed without a cap.  The loop is sequential code
\* that nothing suspends: once inside it the next native call is always
\* issued, which is the weak fairness of ProcessListLoop.
NextLoop ==
    \/ AmdSmiInit
    \/ SocketHandles
    \/ ProcessorHandles
    \/ DeviceProcessList
    \/ ProcessListLoop

SpecLoop == Init /\ [][NextLoop]_vars /\ WF_vars(ProcessListLoop)

\* The status conversion on its own: check_status applied to one raw status
\* after another, as every operation applies it to what its native call
\* returned.
CheckStatus ==
    /\ \E status \in 0..MaxRawStatus :
        last' = Did("check_status", "n/a",
                    <<Call("any", 0, "null", 0, status, 0, <<>>)>>,
                    check_status(status))
    /\ UNCHANGED <<lib, strong, roots, sockets, procs, shutLog, pc, max_processes>>

NextStatus == CheckStatus

SpecStatus == Init /\ [][NextStatus]_vars

\* ================================================================ claims
\* Helpers of the claims' formulas.
HeldCount(held) == LET S == {t \in TokenValues : held[t] > 0}
                       sum[T \in SUBSET TokenValues] ==
                           IF T = {} THEN 0
                           ELSE LET t == CHOOSE x \in T : TRUE
                                IN held[t] + sum[T \ {t}]
                   IN sum[S]
NoStopCalled == \A i \in 1..Len(shutLog) : shutLog[i].by # "stop"
AllReleased == roots = 0 /\ HeldCount(sockets) = 0 /\ HeldCount(procs) = 0
Min(a, b) == IF a < b THEN a ELSE b
IsEnumeration == last.op \in {"socket_handles", "processor_handles"}
LastCall == last.calls[Len(last.calls)]

\* C1: after a successful init and with no stop() call, amdsmi_shut_down has
\* been invoked exactly once when the root reference and every derived handle
\* have been released, in whatever order, and not at all before that.
C1_ShutdownOnceOnLastRelease ==
    (lib # "none" /\ NoStopCalled) =>
        /\ Len(shutLog) = (IF AllReleased THEN 1 ELSE 0)
        /\ (lib = "dropped") = AllReleased

\* C1 witness: sockets and processors were derived, the root went first and
\* a processor handle was the last reference released.
C1_Witness ==
    /\ lib = "dropped"
    /\ NoStopCalled
    /\ last.op = "drop_processor"
    /\ Len(shutLog) = 1

\* C2: counting stop() and the implicit teardown together, amdsmi_shut_down
\* is invoked exactly once on an instance: never a second time, and once
\* when the instance is gone.
C2_ShutdownExactlyOnce ==
    /\ Len(shutLog) <= 1
    /\ (lib = "dropped" => Len(shutLog) = 1)

\* C3: amdsmi_shut_down is never invoked, by stop() or by the teardown, while
\* another reference to the instance (a socket or processor handle) is live.
C3_NoShutdownWhileHandleLive ==
    \A i \in 1..Len(shutLog) : ~shutLog[i].shared

\* C4: no get-socket-handles, get-processor-handles or device query is issued
\* on an instance after amdsmi_shut_down has been invoked on it.
C4_NoNativeCallAfterShutdown ==
    \A i \in 1..Len(last.calls) :
        last.calls[i].fn \in {"amdsmi_get_socket_handles",
                              "amdsmi_get_processor_handles",
                              "amdsmi_get_gpu_process_list"}
            => ~last.calls[i].down

\* C5: init hands out a library handle only after a successful load and a
\* successful native init; a failed load gives the Load error and no native
\* init call; a non-success native init gives the Init error carrying that
\* call's mapped status, and no handle.
C5_InitOutcome ==
    last.op = "init" =>
        /\ (last.load = "failed") =>
               /\ last.res = LoadError
               /\ last.calls = <<>>
               /\ lib = "none" /\ roots = 0 /\ strong = 0
        /\ (last.load = "ok") =>
               /\ Len(last.calls) = 1
               /\ last.calls[1].fn = "amdsmi_init"
               /\ IF last.calls[1].st = CODE_SUCCESS
                  THEN /\ last.res.kind = "Ok"
                       /\ lib \in {"live", "dropped"}
                  ELSE /\ last.res = Err(AmdStatusFrom(last.calls[1].st))
                       /\ lib = "none" /\ roots = 0 /\ strong = 0
        /\ (last.res.kind = "Ok") =>
               /\ last.load = "ok"
               /\ last.calls[1].st = CODE_SUCCESS
               /\ lib = "live" /\ roots = 1 /\ strong = 1

\* C5 witness: the library loaded, native init answered a status the
\* conversion does not recognise, and init returned the Init error.
C5_Witness ==
    /\ last.op = "init"
    /\ last.load = "ok"
    /\ last.calls[1].st = CODE_TIMEOUT
    /\ last.res = Err("UnknownError")
    /\ lib = "none"

\* C6 (as claimed): when the socket count probe reports success with count 0,
\* socket_handles returns an empty sequence after exactly one native call.
C6_ZeroProbeSkipsFill ==
    (/\ last.op = "socket_handles"
     /\ last.calls[1].st = CODE_SUCCESS
     /\ last.calls[1].cnt = 0)
        => /\ Len(last.calls) = 1
           /\ last.res = Ok(<<>>)

\* C6 (amended): when the socket count probe reports success with count 0,
\* socket_handles still issues the fill call, with an empty buffer (exactly
\* two native calls); it returns an empty sequence when that call reports
\* success, whatever count it reports, and that call's error otherwise.
C6_ZeroProbeStillFills ==
    (/\ last.op = "socket_handles"
     /\ last.calls[1].st = CODE_SUCCESS
     /\ last.calls[1].cnt = 0)
        => /\ Len(last.calls) = 2
           /\ last.calls[2].fn = "amdsmi_get_socket_handles"
           /\ last.calls[2].buf = "vec"
           /\ last.calls[2].cap = 0
           /\ last.res = (IF last.calls[2].st = CODE_SUCCESS
                          THEN Ok(<<>>)
                          ELSE Err(AmdStatusFrom(last.calls[2].st)))

\* C6 witness: probe success with count 0, then a fill call that reports
\* success with a non-zero count; the result is empty.
C6_Witness ==
    /\ last.op = "socket_handles"
    /\ last.calls[1].st = CODE_SUCCESS
    /\ last.calls[1].cnt = 0
    /\ Len(last.calls) = 2
    /\ last.calls[2].st = CODE_SUCCESS
    /\ last.calls[2].cnt > 0
    /\ last.res = Ok(<<>>)

\* C7: when the probe reports N and the fill call reports success with count
\* N, socket_handles returns N handles, in the order the native call wrote
\* the tokens, and the instance's strong count grows by exactly N (one
\* reference per handle, all to the instance the call was made on).
C7_ExactFillYieldsNHandles ==
    [][(/\ last'.op = "socket_handles"
        /\ Len(last'.calls) = 2
        /\ last'.calls[1].st = CODE_SUCCESS
        /\ last'.calls[2].st = CODE_SUCCESS
        /\ last'.calls[1].cnt = last'.calls[2].cnt)
          => LET N == last'.calls[1].cnt
                 written == last'.calls[2].out
             IN /\ last'.res.kind = "Ok"
                /\ Len(last'.res.vals) = N
                /\ \A i \in 1..N : last'.res.vals[i].inner = written[i]
                /\ strong' = strong + N
                /\ lib' = lib
                /\ \A t \in TokenValues :
                       sockets'[t] = sockets[t]
                           + Cardinality({i \in 1..N : written[i] = t})]_vars

\* C7 witness: probe 2, fill 2, two different tokens written, two handles.
C7_Witness ==
    /\ last.op = "socket_handles"
    /\ Len(last.calls) = 2
    /\ last.calls[1].st = CODE_SUCCESS /\ last.calls[1].cnt = 2
    /\ last.calls[2].st = CODE_SUCCESS /\ last.calls[2].cnt = 2
    /\ last.calls[2].out[1] # last.calls[2].out[2]
    /\ Len(last.res.vals) = 2
    /\ strong = 3

\* C8: in the two-call shape, when both calls succeed with probe count A and
\* fill count B, the handles returned are the first min(A, B) entries of the
\* buffer: never more than the A allocated, never past the B returned.
C8_TruncatedToSmaller ==
    (/\ IsEnumeration
     /\ Len(last.calls) = 2
     /\ last.calls[1].st = CODE_SUCCESS
     /\ last.calls[2].st = CODE_SUCCESS)
        => LET A == last.calls[1].cnt
               B == last.calls[2].cnt
           IN /\ last.calls[2].cap = A
              /\ last.res.kind = "Ok"
              /\ Len(last.res.vals) = Min(A, B)
              /\ \A i \in 1..Min(A, B) :
                     last.res.vals[i].inner = last.calls[2].out[i]

\* C8 witness: processor_handles, probe 2, fill returns 1, one handle.
C8_Witness ==
    /\ last.op = "processor_handles"
    /\ Len(last.calls) = 2
    /\ last.calls[1].st = CODE_SUCCESS /\ last.calls[1].cnt = 2
    /\ last.calls[2].st = CODE_SUCCESS /\ last.calls[2].cnt = 1
    /\ Len(last.res.vals) = 1

\* C9: in socket_handles and processor_handles a non-success probe returns
\* that call's mapped status as the error without a fill call, a non-success
\* fill returns that call's mapped status as the error with no handles, and
\* one invocation never issues more than two native calls.
C9_EnumerationErrors ==
    IsEnumeration =>
        /\ Len(last.calls) \in {1, 2}
        /\ last.calls[1].buf = "null"
        /\ (last.calls[1].st # CODE_SUCCESS) =>
               /\ Len(last.calls) = 1
               /\ last.res = Err(AmdStatusFrom(last.calls[1].st))
        /\ (last.calls[1].st = CODE_SUCCESS) =>
               /\ Len(last.calls) = 2
               /\ last.calls[2].buf = "vec"
        /\ (Len(last.calls) = 2 /\ last.calls[2].st # CODE_SUCCESS) =>
               /\ last.res = Err(AmdStatusFrom(last.calls[2].st))
               /\ last.res.vals = <<>>
        /\ (last.res.kind = "Err") => (LastCall.st # CODE_SUCCESS)

\* C9 witness: processor_handles whose probe succeeded and whose fill call
\* answered out-of-resources: two calls, that error, no handles.
C9_Witness ==
    /\ last.op = "processor_handles"
    /\ Len(last.calls) = 2
    /\ last.calls[1].st = CODE_SUCCESS
    /\ last.calls[2].st = CODE_OUT_OF_RESSOURCE
    /\ last.res = Err("OutOfResources")

\* C10: in device_process_list, after an accepted probe with a non-zero
\* count, when the fill calls answer out-of-resources k times and then
\* success with count n, the retrieval returns exactly n entries and has
\* made exactly k + 2 native calls.
C10_GrowingRetrieval ==
    (/\ last.op = "device_process_list"
     /\ Len(last.calls) >= 2
     /\ LastCall.st = CODE_SUCCESS)
        => LET k == Cardinality({i \in 2..Len(last.calls) :
                                    last.calls[i].st = CODE_OUT_OF_RESSOURCE})
           IN /\ pc = "idle"
              /\ last.res.kind = "Ok"
              /\ Len(last.res.vals) = LastCall.cnt
              /\ Len(last.calls) = k + 2

\* C10 within the native contract: when the count of the final, successful
\* fill call does not exceed the capacity passed to it, the retrieval returns
\* exactly that many entries, all written by the library, after k + 2 calls.
C10_WithinCapacity ==
    (/\ last.op = "device_process_list"
     /\ Len(last.calls) >= 2
     /\ LastCall.st = CODE_SUCCESS
     /\ LastCall.cnt <= LastCall.cap)
        => LET k == Cardinality({i \in 2..Len(last.calls) :
                                    last.calls[i].st = CODE_OUT_OF_RESSOURCE})
           IN /\ pc = "idle"
              /\ last.res = Ok([i \in 1..LastCall.cnt |-> "proc"])
              /\ Len(last.calls) = k + 2

\* The spec's example: out-of-resources at 2 (probe), out-of-resources at 5,
\* success at 5: five entries after three native calls.
C10_Example ==
    /\ last.op = "device_process_list"
    /\ Len(last.calls) = 3
    /\ last.calls[1].st = CODE_OUT_OF_RESSOURCE /\ last.calls[1].cnt = 2
    /\ last.calls[2].st = CODE_OUT_OF_RESSOURCE /\ last.calls[2].cnt = 5
    /\ last.calls[3].st = CODE_SUCCESS /\ last.calls[3].cnt = 5
    /\ Len(last.res.vals) = 5

\* C11: in device_process_list, when the probe (null buffer) is accepted and
\* leaves the count at 0, the result is at once the empty sequence and the
\* probe is the only native call.
C11_ZeroProbeReturnsEmpty ==
    (/\ last.op = "device_process_list"
     /\ last.calls[1].st \in {CODE_SUCCESS, CODE_OUT_OF_RESSOURCE}
     /\ last.calls[1].cnt = 0)
        => /\ Len(last.calls) = 1
           /\ last.calls[1].buf = "null"
           /\ last.res = Ok(<<>>)
           /\ pc = "idle"

\* C11 witness: the probe answered out-of-resources with count 0 and the
\* operation returned the empty sequence.
C11_Witness ==
    /\ last.op = "device_process_list"
    /\ last.calls[1].st = CODE_OUT_OF_RESSOURCE
    /\ last.calls[1].cnt = 0
    /\ last.res = Ok(<<>>)

\* C12: in device_process_list a status other than success or
\* out-of-resources, from the probe or from any fill call, ends the operation
\* at that call with an error carrying that call's mapped status; an error is
\* returned in no other case, so out-of-resources is never the error.
C12_HardErrorsOnly ==
    last.op = "device_process_list" =>
        /\ \A i \in 1..Len(last.calls) :
               (last.calls[i].st \notin {CODE_SUCCESS, CODE_OUT_OF_RESSOURCE}) =>
                   /\ i = Len(last.calls)
                   /\ pc = "idle"
                   /\ last.res = Err(AmdStatusFrom(last.calls[i].st))
        /\ (last.res.kind = "Err") =>
               /\ LastCall.st \notin {CODE_SUCCESS, CODE_OUT_OF_RESSOURCE}
               /\ last.res.status # "OutOfResources"

\* C12 witness: the probe and a first fill call answered out-of-resources,
\* the second fill call answered a status the conversion does not recognise.
C12_Witness ==
    /\ last.op = "device_process_list"
    /\ Len(last.calls) = 3
    /\ last.calls[1].st = CODE_OUT_OF_RESSOURCE
    /\ last.calls[2].st = CODE_OUT_OF_RESSOURCE
    /\ last.calls[3].st = CODE_TIMEOUT
    /\ last.res = Err("UnknownError")

\* The fill calls of a device_process_list log that answered
\* out-of-resources and were followed by another fill call.
RetriedFills ==
    IF last.op = "device_process_list"
    THEN {i \in 2..(Len(last.calls) - 1) :
              last.calls[i].st = CODE_OUT_OF_RESSOURCE}
    ELSE {}

\* C20 as stated: after a fill call answers out-of-resources the next fill
\* call uses the returned count as capacity, and that capacity is larger than
\* the one just used.
C20_EstimateGrows ==
    \A i \in RetriedFills :
        /\ last.calls[i + 1].cap = last.calls[i].cnt
        /\ last.calls[i + 1].cap > last.calls[i].cap

\* C20 amended: after a fill call answers out-of-resources the next fill
\* call uses exactly the returned count as capacity, whether or not that
\* count exceeds the capacity just used.
C20_EstimateAdopted ==
    \A i \in RetriedFills :
        last.calls[i + 1].cap = last.calls[i].cnt

\* C20 witness: a fill call with capacity 2 answered out-of-resources with
\* count 2 and the next fill call was issued with capacity 2 again.
C20_Witness ==
    /\ last.op = "device_process_list"
    /\ Len(last.calls) = 3
    /\ last.calls[2].st = CODE_OUT_OF_RESSOURCE
    /\ last.calls[2].cap = 2
    /\ last.calls[2].cnt = 2
    /\ last.calls[3].cap = 2

\* The characters of `prefix` that precede its first terminator; all of
\* them when it holds none.
LeadingText(prefix) ==
    LET n == CHOOSE k \in 0..Len(prefix) :
                 /\ \A i \in 1..k : prefix[i] # 0
                 /\ k = Len(prefix) \/ prefix[k + 1] = 0
    IN SubSeq(prefix, 1, n)

\* device_uuid returned after a successful native call that reported a
\* length between 1 and the capacity of the buffer.
UuidInRange ==
    /\ last.op = "device_uuid"
    /\ last.calls[1].st = CODE_SUCCESS
    /\ last.calls[1].cnt \in 1..AMDSMI_GPU_UUID_SIZE

\* C13 as stated: for every buffer content, with the character at index
\* L - 1 a terminator the text is the L - 1 bytes before it, otherwise it is
\* exactly the first L characters.
C13_TextIsReportedPrefix ==
    UuidInRange =>
        LET buf == last.calls[1].out
            L == last.calls[1].cnt
        IN IF buf[L] = 0
           THEN last.res = Ok(SubSeq(buf, 1, L - 1))
           ELSE last.res = Ok(SubSeq(buf, 1, L))

\* C13 on the buffers about which it leaves no doubt: the first L
\* characters are valid text and none of them but possibly the last is a
\* terminator.  With the last one a terminator the text is the L - 1 bytes
\* before it, otherwise it is exactly the first L characters.
C13_PlainTextIsReportedPrefix ==
    (/\ UuidInRange
     /\ \A i \in 1..(last.calls[1].cnt - 1) : last.calls[1].out[i] # 0
     /\ Utf8Valid(SubSeq(last.calls[1].out, 1, last.calls[1].cnt)))
        => last.res = Ok(LeadingText(SubSeq(last.calls[1].out, 1,
                                            last.calls[1].cnt)))

\* What does hold of the text of device_uuid: it is returned exactly when
\* the characters before the first terminator of the first L are valid text,
\* it has their number, and it has their content when the buffer was
\* decoded in place (terminator at index L - 1).
C13_TextLengthAndDirectBranch ==
    UuidInRange =>
        LET buf == last.calls[1].out
            L == last.calls[1].cnt
            text == LeadingText(SubSeq(buf, 1, L))
        IN /\ last.res.kind \in {"Ok", "Err"}
           /\ last.res.kind = "Ok" <=> Utf8Valid(text)
           /\ last.res.kind = "Ok" => Len(last.res.vals) = Len(text)
           /\ (last.res.kind = "Ok" /\ buf[L] = 0) => last.res.vals = text

\* The run that refutes C13: length 3 reported on a buffer of three letters
\* and a text of three terminators returned.
C13_ZeroedText ==
    /\ UuidInRange
    /\ last.calls[1].cnt = 3
    /\ last.calls[1].out = <<97, 97, 97>>
    /\ last.res = Ok(<<0, 0, 0>>)

\* Another such run: the text returned mixes a zero, a foreign byte that is
\* no valid text, and a byte of the copy.
C13_MixedText ==
    /\ UuidInRange
    /\ last.calls[1].cnt = 3
    /\ last.calls[1].out = <<97, 97, 97>>
    /\ last.res = Ok(<<0, 160, 97>>)

\* C14: when the UUID call succeeds and the bytes read are not valid text,
\* device_uuid returns an error whose status is the mapped status of that
\* same call, in the branch that decodes in place and in the branch that
\* copies, whatever the dead slot holds when it is read.
C14_DecodeErrorCarriesCallStatus ==
    (/\ UuidInRange
     /\ ~Utf8Valid(LeadingText(SubSeq(last.calls[1].out, 1, last.calls[1].cnt))))
        => last.res = Err(AmdStatusFrom(last.calls[1].st))

\* C14 witness: a successful call left an invalid byte in front of the
\* terminator and the error returned carries the status Success.
C14_Witness ==
    /\ UuidInRange
    /\ last.calls[1].cnt = 2
    /\ last.calls[1].out[1] = 255
    /\ last.calls[1].out[2] = 0
    /\ last.res = Err("Success")

SingleShotQueries ==
    {"device_activity", "device_energy_consumption", "device_memory_usage",
     "device_power_consumption", "device_power_managment",
     "device_temperature", "device_voltage"}

\* C16: a single-shot telemetry query issues exactly one native call; a
\* non-success status gives an error with the mapped status and nothing of
\* the output storage; a value is returned only on success.
C16_SingleShot ==
    last.op \in SingleShotQueries =>
        /\ Len(last.calls) = 1
        /\ last.calls[1].st # CODE_SUCCESS =>
               /\ last.res = Err(AmdStatusFrom(last.calls[1].st))
               /\ last.res.vals = <<>>
        /\ last.res.kind = "Ok" <=> last.calls[1].st = CODE_SUCCESS
        /\ last.res.kind = "Ok" => last.res.vals = last.calls[1].out[2]

\* C16 witness: device_voltage whose native call failed with a status the
\* conversion does not recognise after writing to the output storage.
C16_Witness ==
    /\ last.op = "device_voltage"
    /\ last.calls[1].st = CODE_TIMEOUT
    /\ last.calls[1].out[2] = <<7>>
    /\ last.res = Err("UnknownError")

\* C18: a successful device_memory_usage on a processor handle obtained from
\* processor_handles returns the byte count the native call wrote, unchanged,
\* for every memory type, and the call carries the handle's own token and the
\* caller's memory type.
C18_MemoryUsagePassThrough ==
    (last.op = "device_memory_usage" /\ last.res.kind = "Ok") =>
        /\ procs[last.self[1]] > 0
        /\ last.calls[1].fn = "amdsmi_get_gpu_memory_usage"
        /\ last.calls[1].arg = last.self[1]
        /\ last.calls[1].out[1] = last.args
        /\ last.res.vals = last.calls[1].out[2]

\* C18 witness: the handle with token 1 asked for GTT memory and got the 7
\* bytes the native call reported.
C18_Witness ==
    /\ last.op = "device_memory_usage"
    /\ last.self = <<1>>
    /\ last.args = <<"AMDSMI_MEM_TYPE_GTT">>
    /\ last.calls[1].arg = 1
    /\ last.res = Ok(<<7>>)

\* The seven codes the conversion is said to recognise.
RecognizedCodes ==
    {CODE_SUCCESS, CODE_INVAL, CODE_NOT_SUPPORTED, CODE_NOT_YET_IMPLEMENTED,
     CODE_NO_PERM, CODE_OUT_OF_RESSOURCE, CODE_UNEXPECTED_DATA}

\* C15: every raw status is converted; each of the seven recognised codes
\* yields a named status whose numeric value is that code, every other
\* integer (the timeout and busy codes among them) yields UnknownError.
C15_StatusMapping ==
    last.op = "check_status" =>
        LET c == last.calls[1].st
            s == last.res.status
        IN /\ c \in RecognizedCodes => s # "UnknownError" /\ AmdStatusValue(s) = c
           /\ c \notin RecognizedCodes => s = "UnknownError"
           /\ c \in {CODE_TIMEOUT, CODE_BUSY} => last.res = Err("UnknownError")

\* C15 witness: the busy code was converted to UnknownError.
C15_Witness ==
    /\ last.op = "check_status"
    /\ last.calls[1].st = CODE_BUSY
    /\ last.res.status = "UnknownError"

\* C17 as stated: the error identifies the native status code, so two
\* different non-success codes never produce the same error value.  Checked
\* on every pair of consecutive conversions.
C17_ErrorIdentifiesCode ==
    [][(/\ last.op = "check_status" /\ last'.op = "check_status"
        /\ last.res.kind = "Err" /\ last'.res.kind = "Err"
        /\ last.calls[1].st # last'.calls[1].st)
           => last.res # last'.res]_vars

\* C19: the loop of device_process_list has no iteration bound.  A fill call
\* keeps the operation in the loop exactly when it answered
\* out-of-resources, whatever the number of calls made before, and an
\* operation in the loop always issues another call: it ends if and only if
\* some fill call answers another status, and answered out-of-resources
\* every time it issues native calls forever and never returns.
C19_LoopUnbounded ==
    /\ [][pc = "pl_fill" =>
             (pc' = "pl_fill" <=>
                 last'.calls[Len(last'.calls)].st = CODE_OUT_OF_RESSOURCE)]_vars
    /\ \A k \in 1..MaxCalls :
           (pc = "pl_fill" /\ Len(last.calls) = k)
               ~> (pc # "pl_fill" \/ Len(last.calls) # k)

\* C19 witness: still in the loop after more fill calls than the log
\* holds: the log was cut back and its latest fill call, answered
\* out-of-resources, used a capacity of 5 that only an earlier fill call can
\* have reported, the probe having reported 2.
C19_Witness ==
    /\ pc = "pl_fill"
    /\ last.op = "device_process_list"
    /\ Len(last.calls) = 2
    /\ last.calls[1].cnt = 2
    /\ last.calls[2].cap = 5
    /\ last.calls[2].st = CODE_OUT_OF_RESSOURCE

\* Not a property of the code: that every retrieval leaves the loop.  It is
\* refuted under SpecLoop by the run in which every fill call answers
\* out-of-resources, the run C19 speaks of.
C19_EveryRetrievalReturns == (pc = "pl_fill") ~> (pc # "pl_fill")

\* C21: in device_process_list, when a fill call reports success the number
\* of entries handed to the caller never exceeds the capacity of the buffer
\* allocated for that call, whatever count the call wrote back.
C21_ExposedWithinCapacity ==
    (/\ last.op = "device_process_list"
     /\ Len(last.calls) >= 2
     /\ LastCall.st = CODE_SUCCESS
     /\ last.res.kind = "Ok")
        => Len(last.res.vals) <= LastCall.cap

\* C22: in device_uuid, for every length the native call may report on
\* success (0 and lengths above the buffer capacity included) every index
\* used while choosing the decoding branch is inside its buffer, so the
\* operation returns a result and does not fail on an index out of range or
\* on an underflowing length - 1.
C22_UuidIndexInBounds ==
    (last.op = "device_uuid" /\ last.calls[1].st = CODE_SUCCESS)
        => last.res.kind \in {"Ok", "Err"}

\* C23: a failed AmdSmi::init, whether the load failed or the native init
\* reported a non-success status, invokes no shutdown and leaves no
\* instance behind; an instance exists only after a native init that
\* reported success, and shutdown is invoked only on such an instance.
C23_NoShutdownAfterFailedInit ==
    [][/\ (last'.op = "init" /\ last'.res.kind # "Ok" /\ lib = "none") =>
              /\ shutLog' = shutLog
              /\ lib' = "none" /\ strong' = 0 /\ roots' = 0
       /\ (lib = "none" /\ lib' # "none") =>
              /\ last'.op = "init"
              /\ last'.load = "ok"
              /\ last'.calls[1].st = CODE_SUCCESS
       /\ shutLog' # shutLog => lib = "live"]_vars

\* C23 witness: the library loaded, the native init reported a non-success
\* status, and no shutdown was invoked.
C23_Witness ==
    /\ last.op = "init"
    /\ last.load = "ok"
    /\ last.calls[1].st = CODE_INVAL
    /\ last.res = Err("Inval")
    /\ lib = "none"
    /\ shutLog = <<>>

====
